---- MODULE Spec2Model ----
(***************************************************************************)
(* Model of the OP receipt metadata code of                                *)
(* crates/optimism/rpc/src/eth/receipt.rs: the OpReceiptFieldsBuilder      *)
(* (new, l1_block_info, deposit_nonce, deposit_version, build) and the     *)
(* receipt pipeline build_transaction_receipt -> build_op_receipt_meta.    *)
(*                                                                         *)
(* Two specifications share the definitions:                               *)
(*   Spec         a caller drives one builder through its public methods,  *)
(*                in any order and any number of times, then builds;       *)
(*   SpecReceipt  the RPC handler build_transaction_receipt is called with *)
(*                arbitrary transactions, blocks and receipts.             *)
(*                                                                         *)
(* Widths are scaled: U128_MAX stands for u128::MAX and U256_MAX for       *)
(* U256::MAX; only their order and the clamping at each matter.            *)
(***************************************************************************)
EXTENDS Integers, Sequences, FiniteSets, TLC

\* Largest value of the narrow output width (u128 in the source).
U128_MAX == 7
\* Largest value of the wide arithmetic type (U256 in the source).
U256_MAX == 12
\* Block timestamps range over 0 .. MaxTimestamp.
MaxTimestamp == 2
\* Deposit nonces range over 0 .. MaxNonce.
MaxNonce == 0
\* Activation timestamp of Ecotone in the modelled chain spec.
EcotoneTime == 1

(***************************************************************************)
(* Rust's Option and Result.                                               *)
(***************************************************************************)
None == <<>>
Some(x) == <<x>>
Unwrap(o) == o[1]
Ok(v) == [ok |-> TRUE, val |-> v]
Err(e) == [ok |-> FALSE, err |-> e]

\* Option::unwrap_or_default on an Option<U256>.
unwrap_or_default(o) == IF o = None THEN 0 ELSE o[1]


(***************************************************************************)
(* Numeric helpers of ruint's U256.                                        *)
(***************************************************************************)
\* A buggy narrowing that wraps modulo 2^128 instead of clamping.
saturating_to_wrapping(x) == x % (U128_MAX + 1)

\* U256::saturating_to::<u128>() : clamp at the narrow maximum.
saturating_to(x) == IF x > U128_MAX THEN U128_MAX ELSE x

\* A buggy narrowing of an optional value that defaults a missing value instead of
\* leaving it missing.
map_saturating_to_or_default(o) == Some(saturating_to(unwrap_or_default(o)))

\* Option::map(|v| v.saturating_to()) on an Option<U256>.
map_saturating_to(o) == IF o = None THEN None ELSE Some(saturating_to(o[1]))

\* A buggy addition that wraps modulo 2^256 instead of clamping.
saturating_add_wrapping(a, b) == (a + b) % (U256_MAX + 1)

\* U256::saturating_add : clamp at the wide maximum.
saturating_add(a, b) == IF a + b > U256_MAX THEN U256_MAX ELSE a + b

\* f64::from(x) / d, kept as the exact quotient x/d (rounding is not modelled).
f64_div(x, d) == <<x, d>>

(***************************************************************************)
(* Input domains.                                                          *)
(***************************************************************************)
Timestamps == 0 .. MaxTimestamp

\* revm::L1BlockInfo, the L1 context of a block. Every U256 field takes a value
\* in range of the narrow width or one above it; the fields' values differ from
\* each other.
Contexts ==
    [ l1_base_fee : {1, U128_MAX + 1},
      l1_fee_overhead : {None, Some(1)},
      l1_base_fee_scalar : {2, U128_MAX + 2},
      l1_blob_base_fee : {None, Some(U128_MAX + 3)},
      l1_blob_base_fee_scalar : {None, Some(3)} ]

\* What the L1 fee formulas return for one raw transaction under one context.
FeeResults == {Err("fee"), Ok(4), Ok(U128_MAX + 4)}
GasResults == {Err("gas"), Ok(2), Ok(U256_MAX)}

\* TransactionSigned: the deposit flag, and the encoded envelope abstracted by
\* the results the fee formulas produce for it.
Transactions ==
    [ is_deposit : BOOLEAN,
      fee_bedrock : FeeResults,
      fee_ecotone : FeeResults,
      data_gas : GasResults ]

\* reth_primitives::Receipt: only the two deposit fields are read here.
DepositNonces == {None} \cup {Some(n) : n \in 0 .. MaxNonce}
DepositVersions == {None, Some(1)}
Receipts ==
    [ deposit_nonce : DepositNonces,
      deposit_receipt_version : DepositVersions ]

\* The executor writes deposit fields only on receipts of deposit transactions.
ReceiptOf(tx, receipt) ==
    tx.is_deposit \/ (receipt.deposit_nonce = None /\ receipt.deposit_receipt_version = None)

\* The chain spec: the hardfork activation table.
ChainSpec == [ecotone |-> EcotoneTime]

\* OptimismHardforks::is_ecotone_active_at_timestamp.
is_ecotone_active_at_timestamp(chain_spec, timestamp) == timestamp >= chain_spec.ecotone

\* RethL1BlockInfo::l1_tx_data_fee: the fee formula of the hardfork active at
\* the timestamp.
l1_tx_data_fee(l1_block_info, chain_spec, timestamp, tx) ==
    IF is_ecotone_active_at_timestamp(chain_spec, timestamp)
    THEN tx.fee_ecotone
    ELSE tx.fee_bedrock

\* RethL1BlockInfo::l1_data_gas: the gas-size formula.
l1_data_gas(l1_block_info, chain_spec, timestamp, tx) == tx.data_gas

(***************************************************************************)
(* OpReceiptFieldsBuilder.                                                 *)
(***************************************************************************)
\* #[derive(Default)]: timestamp 0, every field None.
Default ==
    [ l1_block_timestamp |-> 0,
      l1_fee |-> None,
      l1_data_gas |-> None,
      l1_fee_scalar |-> None,
      l1_base_fee |-> None,
      deposit_nonce |-> None,
      deposit_receipt_version |-> None,
      l1_base_fee_scalar |-> None,
      l1_blob_base_fee |-> None,
      l1_blob_base_fee_scalar |-> None ]

\* A buggy constructor that starts with a zero fee instead of no fee.
new_zero_fee(block_timestamp) ==
    [Default EXCEPT !.l1_block_timestamp = block_timestamp, !.l1_fee = Some(0)]

\* OpReceiptFieldsBuilder::new.
new(block_timestamp) == [Default EXCEPT !.l1_block_timestamp = block_timestamp]

\* A buggy legacy fee scalar that is set at every timestamp.
l1_fee_scalar_always(chain_spec, timestamp, l1_block_info) ==
    Some(f64_div(l1_block_info.l1_base_fee_scalar, 1000000))

\* The legacy fee scalar: set only while Ecotone is not active.
l1_fee_scalar_of(chain_spec, timestamp, l1_block_info) ==
    IF ~is_ecotone_active_at_timestamp(chain_spec, timestamp)
    THEN Some(f64_div(l1_block_info.l1_base_fee_scalar, 1000000))
    ELSE None

\* The data gas written: the formula's result plus the context's fee overhead.
l1_data_gas_of(gas, l1_block_info) ==
    saturating_to(saturating_add(gas, unwrap_or_default(l1_block_info.l1_fee_overhead)))

\* OpReceiptFieldsBuilder::l1_block_info.
l1_block_info(self, chain_spec, tx, l1_block_info_) ==
    LET timestamp == self.l1_block_timestamp
        fee == l1_tx_data_fee(l1_block_info_, chain_spec, timestamp, tx)
        gas == l1_data_gas(l1_block_info_, chain_spec, timestamp, tx)
    IN  IF ~fee.ok THEN Err("L1BlockFeeError")
        ELSE IF ~gas.ok THEN Err("L1BlockGasError")
        ELSE Ok([self EXCEPT
                  !.l1_fee = Some(saturating_to(fee.val)),
                  !.l1_data_gas = Some(l1_data_gas_of(gas.val, l1_block_info_)),
                  !.l1_fee_scalar = l1_fee_scalar_of(chain_spec, timestamp, l1_block_info_),
                  !.l1_base_fee = Some(saturating_to(l1_block_info_.l1_base_fee)),
                  !.l1_base_fee_scalar = Some(saturating_to(l1_block_info_.l1_base_fee_scalar)),
                  !.l1_blob_base_fee = map_saturating_to(l1_block_info_.l1_blob_base_fee),
                  !.l1_blob_base_fee_scalar =
                      map_saturating_to(l1_block_info_.l1_blob_base_fee_scalar)])

\* A buggy setter that drops the nonce it is given.
deposit_nonce_dropped(self, nonce) == self

\* OpReceiptFieldsBuilder::deposit_nonce.
deposit_nonce(self, nonce) == [self EXCEPT !.deposit_nonce = nonce]

\* A buggy setter that also clears the deposit nonce.
deposit_version_clobbering(self, version) ==
    [self EXCEPT !.deposit_receipt_version = version, !.deposit_nonce = None]

\* OpReceiptFieldsBuilder::deposit_version.
deposit_version(self, version) == [self EXCEPT !.deposit_receipt_version = version]

\* A buggy projection that swaps the two renamed fields.
build_swapped(self) ==
    [ l1_block_info |->
        [ l1_gas_price |-> self.l1_data_gas,
          l1_gas_used |-> self.l1_base_fee,
          l1_fee |-> self.l1_fee,
          l1_fee_scalar |-> self.l1_fee_scalar,
          l1_base_fee_scalar |-> self.l1_base_fee_scalar,
          l1_blob_base_fee |-> self.l1_blob_base_fee,
          l1_blob_base_fee_scalar |-> self.l1_blob_base_fee_scalar ],
      deposit_nonce |-> self.deposit_nonce,
      deposit_receipt_version |-> self.deposit_receipt_version ]

\* OpReceiptFieldsBuilder::build.
build(self) ==
    [ l1_block_info |->
        [ l1_gas_price |-> self.l1_base_fee,
          l1_gas_used |-> self.l1_data_gas,
          l1_fee |-> self.l1_fee,
          l1_fee_scalar |-> self.l1_fee_scalar,
          l1_base_fee_scalar |-> self.l1_base_fee_scalar,
          l1_blob_base_fee |-> self.l1_blob_base_fee,
          l1_blob_base_fee_scalar |-> self.l1_blob_base_fee_scalar ],
      deposit_nonce |-> self.deposit_nonce,
      deposit_receipt_version |-> self.deposit_receipt_version ]

\* A buggy pipeline that builds whatever it has when l1_block_info fails.
build_op_receipt_meta_lenient(chain_spec, tx, l1_block_info_, receipt) ==
    LET r == l1_block_info(Default, chain_spec, tx, l1_block_info_)
        b == IF r.ok THEN r.val ELSE Default
    IN  Ok(build(deposit_version(deposit_nonce(b, receipt.deposit_nonce),
                                 receipt.deposit_receipt_version)))

\* OpEthApi::build_op_receipt_meta.
build_op_receipt_meta(chain_spec, tx, l1_block_info_, receipt) ==
    LET r == l1_block_info(Default, chain_spec, tx, l1_block_info_)
    IN  IF ~r.ok THEN r
        ELSE Ok(build(deposit_version(deposit_nonce(r.val, receipt.deposit_nonce),
                                      receipt.deposit_receipt_version)))

(***************************************************************************)
(* State.                                                                  *)
(***************************************************************************)
VARIABLES
    builder,   \* the builder value a caller holds: None, or Some(builder)
    ts,        \* the timestamp the builder was created with
    applied,   \* the builder methods applied to it so far
    l1_args,   \* the arguments of the last l1_block_info call, and what the formulas returned
    res,       \* what the caller got back: an error of l1_block_info, or build's output
    req,       \* the arguments of the last build_transaction_receipt call
    resp       \* the result of the last build_transaction_receipt call

vars == <<builder, ts, applied, l1_args, res, req, resp>>
builder_vars == <<builder, ts, applied, l1_args, res>>
receipt_vars == <<req, resp>>

Init ==
    /\ builder = None
    /\ ts = 0
    /\ applied = {}
    /\ l1_args = None
    /\ res = None
    /\ req = None
    /\ resp = None

\* Transactions as the builder's direct caller supplies them.
BuilderTransactions ==
    { tx \in Transactions : ~tx.is_deposit /\ tx.fee_bedrock = tx.fee_ecotone }

\* let b = OpReceiptFieldsBuilder::new(block_timestamp)
New ==
    \E block_timestamp \in Timestamps :
        /\ builder = None
        /\ builder' = Some(new(block_timestamp))
        /\ ts' = block_timestamp
        /\ applied' = {}
        /\ l1_args' = None
        /\ res' = None
        /\ UNCHANGED receipt_vars

\* b = b.l1_block_info(chain_spec, tx, l1_block_info)? : on an error the builder is
\* dropped and the caller holds the error.
L1BlockInfo ==
    \E tx \in BuilderTransactions, ctx \in Contexts :
        /\ builder # None
        /\ LET self == Unwrap(builder)
               r == l1_block_info(self, ChainSpec, tx, ctx)
           IN  /\ l1_args' = Some([ ctx |-> ctx,
                                    fee |-> l1_tx_data_fee(ctx, ChainSpec, self.l1_block_timestamp, tx),
                                    gas |-> l1_data_gas(ctx, ChainSpec, self.l1_block_timestamp, tx) ])
               /\ IF r.ok
                  THEN /\ builder' = Some(r.val)
                       /\ applied' = applied \cup {"l1_block_info"}
                       /\ res' = None
                  ELSE /\ builder' = None
                       /\ applied' = applied
                       /\ res' = Some(r)
        /\ UNCHANGED <<ts, receipt_vars>>

\* b = b.deposit_nonce(nonce)
DepositNonce ==
    \E nonce \in DepositNonces :
        /\ builder # None
        /\ builder' = Some(deposit_nonce(Unwrap(builder), nonce))
        /\ applied' = applied \cup {"deposit_nonce"}
        /\ UNCHANGED <<ts, l1_args, res, receipt_vars>>

\* b = b.deposit_version(version)
DepositVersion ==
    \E version \in DepositVersions :
        /\ builder # None
        /\ builder' = Some(deposit_version(Unwrap(builder), version))
        /\ applied' = applied \cup {"deposit_version"}
        /\ UNCHANGED <<ts, l1_args, res, receipt_vars>>

\* let fields = b.build() : consumes the builder.
Build ==
    /\ builder # None
    /\ res' = Some(Ok(build(Unwrap(builder))))
    /\ builder' = None
    /\ UNCHANGED <<ts, applied, l1_args, receipt_vars>>

Next == New \/ L1BlockInfo \/ DepositNonce \/ DepositVersion \/ Build

Spec == Init /\ [][Next]_vars

(***************************************************************************)
(* The receipt pipeline.                                                   *)
(***************************************************************************)
\* A cached block: its timestamp and what extract_l1_info returns for it.
Blocks ==
    [ timestamp : Timestamps,
      l1_info : {Err("extract")} \cup {Ok(ctx) : ctx \in Contexts} ]

\* EthStateCache::get_block_and_receipts: an error, no such block, or the block.
CacheResults == {Err("cache"), Ok(None)} \cup {Ok(Some(b)) : b \in Blocks}

\* One call of build_transaction_receipt: the transaction, its stored receipt,
\* what the cache holds for meta.block_hash, and whether ReceiptBuilder::new
\* succeeds.
Requests ==
    { r \in [ tx : Transactions,
              receipt : Receipts,
              cached : CacheResults,
              receipt_builder_ok : BOOLEAN ] : ReceiptOf(r.tx, r.receipt) }

\* LoadReceipt::build_transaction_receipt.
build_transaction_receipt(chain_spec, r) ==
    IF ~r.cached.ok THEN Err("EthApiError")
    ELSE IF r.cached.val = None THEN Err("UnknownBlockNumber")
    ELSE LET block == Unwrap(r.cached.val)
             l1_block_info_ == block.l1_info
         IN  IF ~l1_block_info_.ok THEN Err("L1BlockInfoError")
             ELSE LET op_receipt_meta ==
                          build_op_receipt_meta(chain_spec, r.tx, l1_block_info_.val, r.receipt)
                  IN  IF ~op_receipt_meta.ok THEN op_receipt_meta
                      ELSE IF ~r.receipt_builder_ok THEN Err("EthApiError")
                      ELSE Ok([other |-> op_receipt_meta.val])

InitReceipt ==
    /\ builder = None
    /\ ts = 0
    /\ applied = {}
    /\ l1_args = None
    /\ res = None
    /\ req \in {Some(r) : r \in Requests}
    /\ resp = None

\* The handler runs once on the request.
BuildTransactionReceipt ==
    /\ req # None
    /\ resp = None
    /\ resp' = Some(build_transaction_receipt(ChainSpec, Unwrap(req)))
    /\ UNCHANGED <<req, builder_vars>>

NextReceipt == BuildTransactionReceipt

SpecReceipt == InitReceipt /\ [][NextReceipt]_vars

(***************************************************************************)
(* Properties of the builder (checked under Spec).                         *)
(***************************************************************************)
Min(a, b) == IF a <= b THEN a ELSE b

\* build() has returned an output.
Built == res # None /\ Unwrap(res).ok
\* The output's L1 block info, and the last l1_block_info call's arguments.
Info == Unwrap(res).val.l1_block_info
Ctx == Unwrap(l1_args).ctx
\* build() has returned after a successful l1_block_info.
BuiltAfterL1 == Built /\ "l1_block_info" \in applied
EcotoneActive == is_ecotone_active_at_timestamp(ChainSpec, ts)

\* C1: after new(t).l1_block_info(..) succeeds and build() is called, l1FeeScalar is
\* present if and only if Ecotone is not active at t, and l1BaseFeeScalar is present
\* in both cases.
C1_FeeScalarIffPreEcotone ==
    BuiltAfterL1 =>
        /\ (Info.l1_fee_scalar # None) <=> ~EcotoneActive
        /\ Info.l1_base_fee_scalar # None

C1_Witness ==
    /\ BuiltAfterL1
    /\ EcotoneActive
    /\ Info.l1_fee_scalar = None
    /\ Info.l1_base_fee_scalar # None

\* C3 (as claimed): with Ecotone inactive, whatever the L1 context, the output built
\* after l1_block_info has both blob fields absent.
C3_BlobAbsentPreEcotone ==
    (BuiltAfterL1 /\ ~EcotoneActive) =>
        /\ Info.l1_blob_base_fee = None
        /\ Info.l1_blob_base_fee_scalar = None

\* C3 (amended): with Ecotone inactive, each blob field of the output is absent
\* exactly when the supplied L1 context does not carry it.
C3_BlobAbsentIffContextHasNone ==
    (BuiltAfterL1 /\ ~EcotoneActive) =>
        /\ (Info.l1_blob_base_fee = None) <=> (Ctx.l1_blob_base_fee = None)
        /\ (Info.l1_blob_base_fee_scalar = None) <=> (Ctx.l1_blob_base_fee_scalar = None)

C3_Witness ==
    /\ BuiltAfterL1
    /\ ~EcotoneActive
    /\ Ctx.l1_blob_base_fee # None
    /\ Ctx.l1_blob_base_fee_scalar = None
    /\ Info.l1_blob_base_fee # None
    /\ Info.l1_blob_base_fee_scalar = None

\* The gas-size formula's result and the context's fee overhead (0 when it has none).
GasValue == Unwrap(l1_args).gas.val
Overhead == IF Ctx.l1_fee_overhead = None THEN 0 ELSE Unwrap(Ctx.l1_fee_overhead)

\* C4 (as claimed): the fee overhead is added to the L1 data gas only when Ecotone is
\* not active at the builder's timestamp; with Ecotone active l1DataGas is the gas
\* formula's result with nothing added. The addition clamps at the maximum.
C4_OverheadOnlyPreEcotone ==
    BuiltAfterL1 =>
        Info.l1_gas_used =
            IF EcotoneActive
            THEN Some(Min(GasValue, U128_MAX))
            ELSE Some(Min(Min(GasValue + Overhead, U256_MAX), U128_MAX))

\* C4 (amended): at every timestamp the L1 data gas is the gas formula's result plus
\* the context's fee overhead when the context carries one (nothing is added when it
\* carries none), by an addition that clamps at the maximum instead of wrapping.
C4_OverheadWheneverCarried ==
    BuiltAfterL1 =>
        Info.l1_gas_used = Some(Min(Min(GasValue + Overhead, U256_MAX), U128_MAX))

C4_Witness ==
    /\ BuiltAfterL1
    /\ EcotoneActive
    /\ Ctx.l1_fee_overhead # None
    /\ GasValue + Overhead <= U128_MAX
    /\ Info.l1_gas_used = Some(GasValue + Overhead)

\* An optional wide value narrowed by clamping.
MinOpt(o) == IF o = None THEN None ELSE Some(Min(Unwrap(o), U128_MAX))

\* C8: every width-narrowed output of l1_block_info equals min(value, narrow maximum):
\* a value above the maximum yields the maximum, one in range is unchanged, and no
\* narrowing fails (l1_block_info fails only when a formula does).
C8_NarrowingClamps ==
    /\ BuiltAfterL1 =>
        /\ Info.l1_fee = Some(Min(Unwrap(l1_args).fee.val, U128_MAX))
        /\ Info.l1_gas_used = Some(Min(saturating_add(GasValue, Overhead), U128_MAX))
        /\ Info.l1_gas_price = Some(Min(Ctx.l1_base_fee, U128_MAX))
        /\ Info.l1_base_fee_scalar = Some(Min(Ctx.l1_base_fee_scalar, U128_MAX))
        /\ Info.l1_blob_base_fee = MinOpt(Ctx.l1_blob_base_fee)
        /\ Info.l1_blob_base_fee_scalar = MinOpt(Ctx.l1_blob_base_fee_scalar)
    /\ (res # None /\ ~Unwrap(res).ok) =>
        (~Unwrap(l1_args).fee.ok \/ ~Unwrap(l1_args).gas.ok)

C8_Witness ==
    /\ BuiltAfterL1
    /\ Ctx.l1_base_fee > U128_MAX
    /\ Info.l1_gas_price = Some(U128_MAX)
    /\ Unwrap(l1_args).fee.val <= U128_MAX
    /\ Info.l1_fee = Some(Unwrap(l1_args).fee.val)

\* C9: build() on a builder to which l1_block_info was never applied returns an
\* output, not an error, in which all seven fee fields are absent.
C9_UnsetOnSkip ==
    (res # None /\ l1_args = None) =>
        /\ Unwrap(res).ok
        /\ Info.l1_gas_price = None
        /\ Info.l1_gas_used = None
        /\ Info.l1_fee = None
        /\ Info.l1_fee_scalar = None
        /\ Info.l1_base_fee_scalar = None
        /\ Info.l1_blob_base_fee = None
        /\ Info.l1_blob_base_fee_scalar = None

C9_Witness ==
    /\ Built
    /\ l1_args = None
    /\ applied = {"deposit_nonce", "deposit_version"}
    /\ Unwrap(res).val.deposit_nonce # None
    /\ Info.l1_fee = None

\* C10: after a successful l1_block_info, whatever the timestamp, l1GasPrice carries
\* the context's L1 base fee, l1BaseFeeScalar the context's base-fee scalar, and each
\* blob field is present if and only if the context carries it.
C10_OutputMirrorsContext ==
    BuiltAfterL1 =>
        /\ Info.l1_gas_price = Some(saturating_to(Ctx.l1_base_fee))
        /\ Info.l1_base_fee_scalar = Some(saturating_to(Ctx.l1_base_fee_scalar))
        /\ (Info.l1_blob_base_fee # None) <=> (Ctx.l1_blob_base_fee # None)
        /\ (Info.l1_blob_base_fee_scalar # None) <=> (Ctx.l1_blob_base_fee_scalar # None)

C10_Witness ==
    /\ BuiltAfterL1
    /\ EcotoneActive
    /\ Ctx.l1_blob_base_fee = None
    /\ Ctx.l1_blob_base_fee_scalar # None
    /\ Info.l1_blob_base_fee = None
    /\ Info.l1_blob_base_fee_scalar = Ctx.l1_blob_base_fee_scalar
    /\ Info.l1_gas_price = Some(Ctx.l1_base_fee)
    /\ Info.l1_base_fee_scalar = Some(Ctx.l1_base_fee_scalar)

\* The accumulator's fields.
Fields ==
    { "l1_fee", "l1_data_gas", "l1_fee_scalar", "l1_base_fee", "l1_base_fee_scalar",
      "l1_blob_base_fee", "l1_blob_base_fee_scalar", "deposit_nonce",
      "deposit_receipt_version" }

\* A builder step keeps every field that was already set.
KeepsSetFields ==
    \A f \in Fields :
        Unwrap(builder)[f] # None => Unwrap(builder')[f] = Unwrap(builder)[f]

\* C5 (as claimed): once a field is set, no later builder operation, in any order and
\* any number of times, clears or overwrites it.
C5_NeverOverwritten ==
    [][(builder # None /\ builder' # None) => KeepsSetFields]_vars

\* C5 (amended): an operation applied for the first time in a build keeps every field
\* already set; so in a build that applies each operation at most once, as
\* build_op_receipt_meta does, no set field is cleared or overwritten.
C5_FirstApplicationKeeps ==
    [][(builder # None /\ builder' # None /\ applied' # applied) => KeepsSetFields]_vars

C5_Witness ==
    /\ builder # None
    /\ applied = {"l1_block_info", "deposit_nonce", "deposit_version"}
    /\ Unwrap(builder).l1_fee # None
    /\ Unwrap(builder).deposit_nonce # None
    /\ Unwrap(builder).deposit_receipt_version # None

(***************************************************************************)
(* Properties of the receipt pipeline (checked under SpecReceipt).         *)
(***************************************************************************)
Req == Unwrap(req)
Block == Unwrap(Req.cached.val)
\* The handler has run and got as far as calling build_op_receipt_meta.
ReachedMeta ==
    /\ resp # None
    /\ Req.cached.ok
    /\ Req.cached.val # None
    /\ Block.l1_info.ok
\* The fields the handler attached to the receipt response.
Other == Unwrap(resp).val.other

\* What the builder started at timestamp t returns for the request.
FieldsAt(t) ==
    LET r == l1_block_info(new(t), ChainSpec, Req.tx, Block.l1_info.val)
    IN  IF ~r.ok THEN r
        ELSE Ok([other |->
                  build(deposit_version(deposit_nonce(r.val, Req.receipt.deposit_nonce),
                                        Req.receipt.deposit_receipt_version))])

\* C2: the receipt pipeline dispatches on the timestamp of the transaction's block:
\* what build_op_receipt_meta yields equals what the builder created with the block
\* timestamp yields for the same transaction, context and receipt.
C2_DispatchOnBlockTimestamp ==
    (ReachedMeta /\ Req.receipt_builder_ok) => Unwrap(resp) = FieldsAt(Block.timestamp)

\* The results of the two formulas as l1_block_info calls them in the pipeline.
PipelineFee ==
    l1_tx_data_fee(Block.l1_info.val, ChainSpec, Default.l1_block_timestamp, Req.tx)
PipelineGas ==
    l1_data_gas(Block.l1_info.val, ChainSpec, Default.l1_block_timestamp, Req.tx)

\* C6: when the fee formula fails the pipeline yields L1BlockFeeError, when the fee
\* succeeds and the gas formula fails it yields L1BlockGasError, and in both cases
\* only the error: an output is returned only fully populated.
C6_ErrorsAbortReceipt ==
    ReachedMeta =>
        /\ ~PipelineFee.ok => Unwrap(resp) = Err("L1BlockFeeError")
        /\ (PipelineFee.ok /\ ~PipelineGas.ok) => Unwrap(resp) = Err("L1BlockGasError")
        /\ Unwrap(resp).ok =>
            /\ PipelineFee.ok /\ PipelineGas.ok
            /\ Other.l1_block_info.l1_fee # None
            /\ Other.l1_block_info.l1_gas_used # None
            /\ Other.l1_block_info.l1_gas_price # None
            /\ Other.l1_block_info.l1_base_fee_scalar # None

C6_Witness ==
    /\ ReachedMeta
    /\ PipelineFee.ok
    /\ ~PipelineGas.ok
    /\ Unwrap(resp) = Err("L1BlockGasError")

====
